---- MODULE Spec2Model ----
(***************************************************************************)
(* Model of src/backend/redis_project/canvas.py: a pixel canvas kept as a  *)
(* packed bitfield in one Redis string.  The module models                 *)
(*   - format_offset / calculate_offset (the "#<index>" addressing token), *)
(*   - the Redis string and its BITFIELD GET / BITFIELD SET / GET commands *)
(*     at bit level,                                                       *)
(*   - the Canvas class: constructor with its initial fill,                *)
(*     get_pixel_color, set_pixel_color, set_pixel_region, get_canvas,     *)
(*     to_string,                                                          *)
(*   - several Canvas objects sharing the same key, every store round trip *)
(*     being one atomic step.                                              *)
(* `from commons import *` is not part of the sources at hand: Color,      *)
(* CANVAS_WIDTH, CANVAS_HEIGHT, PIXEL_FORMAT and                           *)
(* convert_one_index_to_zero_index are modelled from spec.md.              *)
(***************************************************************************)
EXTENDS Integers, Sequences, FiniteSets, TLC

VARIABLES
    blob,     \* the Redis string under the canvas key: a sequence of bytes, <<>> = no key
    pc,       \* client -> "new" | "init" | "ready" | "region" | "scan"
    width,    \* client -> self.width
    height,   \* client -> self.height
    rect,     \* client -> <<x1, y1, x2, y2>> of the running set_pixel_region
    cx,       \* client -> x_coordinate of the next pixel of the running loop
    cy,       \* client -> y_coordinate of the next pixel of the running loop
    last,     \* client -> the last call that returned or raised
    before,   \* history: client -> blob when its running / last set_pixel_region was called
    trips,    \* history: client -> store round trips issued by its running / last fill or scan
    quiet,    \* history: client -> no other client's field set landed since its fill or scan was called
    applied,  \* history: field index -> value of the last BITFIELD SET the store applied to it
    writes,   \* client -> set_pixel_color / set_pixel_region calls it has made so far
    offs,     \* the calculate_offset calls evaluated by the addressing specification
    sent,     \* history: client -> <<x, y, value>> of the field sets its running / last fill issued
    out,      \* client -> bitfield_string of its running to_string
    seen      \* history: client -> the strings the key held, in order, since its running / last to_string was called

vars == <<blob, pc, width, height, rect, cx, cy, last, before, trips, quiet,
          applied, writes, offs, sent, out, seen>>

----------------------------------------------------------------------------
(* commons (modelled from spec.md)                                         *)

CANVAS_WIDTH == 5
CANVAS_HEIGHT == 5
WHITE == 0
GREY == 1
Color == {WHITE, GREY}
PIXEL_FORMAT == <<"u", "4">>

convert_one_index_to_zero_index(v) == v - 1

----------------------------------------------------------------------------
(* Bounds of the model                                                     *)

MaxWrites == 1      \* write calls (set_pixel_color, set_pixel_region) per client
MaxCoord == 5       \* coordinates and widths tried by the addressing specification

Clients == {"A", "B"}

----------------------------------------------------------------------------
(* Python values: str(int), and the values the methods return              *)

Digits == <<"0", "1", "2", "3", "4", "5", "6", "7", "8", "9">>

RECURSIVE str(_)
str(n) ==
    IF n < 0 THEN <<"-">> \o str(-n)
    ELSE IF n < 10 THEN <<Digits[n + 1]>>
    ELSE str(n \div 10) \o <<Digits[(n % 10) + 1]>>

PyNone == [type |-> "NoneType", v |-> <<>>]
PyInt(n) == [type |-> "int", v |-> <<n>>]
PyList(s) == [type |-> "list", v |-> s]
PyBytes(s) == [type |-> "bytes", v |-> s]
PyStr(s) == [type |-> "str", v |-> s]

\* ", ".join of the decimal forms of the integers of s.
RECURSIVE JoinInts(_)
JoinInts(s) ==
    IF Len(s) = 0 THEN <<>>
    ELSE IF Len(s) = 1 THEN str(s[1])
    ELSE JoinInts(SubSeq(s, 1, Len(s) - 1)) \o <<",", " ">> \o str(s[Len(s)])

\* str(value) of an int and of a list of ints.
str_value(val) ==
    IF val.type = "int" THEN str(val.v[1])
    ELSE <<"[">> \o JoinInts(val.v) \o <<"]">>

----------------------------------------------------------------------------
(* canvas.py: format_offset, calculate_offset                              *)

\* Defective variant: the index without the "#" that marks it as a field number.
format_offset_raw(pixel_offset) == str(pixel_offset)

format_offset(pixel_offset) == <<"#">> \o str(pixel_offset)

\* Defective variant: the row offset is not multiplied by the canvas width.
calculate_offset_no_width(pixel_x_coordinate, pixel_y_coordinate, canvas_width) ==
    format_offset(convert_one_index_to_zero_index(pixel_y_coordinate)
                  + convert_one_index_to_zero_index(pixel_x_coordinate))

calculate_offset(pixel_x_coordinate, pixel_y_coordinate, canvas_width) ==
    LET height_index_offset ==
            convert_one_index_to_zero_index(pixel_y_coordinate) * canvas_width
        width_index_offset == convert_one_index_to_zero_index(pixel_x_coordinate)
    IN  format_offset(height_index_offset + width_index_offset)

----------------------------------------------------------------------------
(* The store: a Redis string and the commands canvas.py sends              *)

DigitValue(ch) == CHOOSE d \in 0..9 : Digits[d + 1] = ch

RECURSIVE ParseNat(_)
ParseNat(s) ==
    IF Len(s) = 0 THEN 0
    ELSE ParseNat(SubSeq(s, 1, Len(s) - 1)) * 10 + DigitValue(s[Len(s)])

\* "#<n>": the n-th field of the declared width.
TokenIndex(tok) ==
    IF Len(tok) >= 2 /\ tok[2] = "-" THEN 0 - ParseNat(SubSeq(tok, 3, Len(tok)))
    ELSE ParseNat(Tail(tok))

\* "u<bits>"
FormatBits(fmt) == ParseNat(Tail(fmt))

RECURSIVE Pow2(_)
Pow2(n) == IF n = 0 THEN 1 ELSE 2 * Pow2(n - 1)

\* Bit k of the string, bit 0 being the most significant bit of the first byte;
\* bits past the end of the string read as 0.
GetBit(b, k) ==
    IF (k \div 8) + 1 > Len(b) THEN 0
    ELSE (b[(k \div 8) + 1] \div Pow2(7 - (k % 8))) % 2

\* The string zero-padded to at least n bytes.
Grow(b, n) == IF Len(b) >= n THEN b ELSE b \o [q \in 1..(n - Len(b)) |-> 0]

RECURSIVE GetUnsigned(_, _, _)
GetUnsigned(b, off, bits) ==
    IF bits = 0 THEN 0
    ELSE GetUnsigned(b, off, bits - 1) * 2 + GetBit(b, off + bits - 1)

\* Bit k of the string once the `bits` bits from bit `off` on hold the low `bits`
\* bits of value, most significant first: every other bit is kept.
WrittenBit(b, off, bits, value, k) ==
    IF k \in off..(off + bits - 1)
    THEN (value \div Pow2(off + bits - 1 - k)) % 2
    ELSE GetBit(b, k)

\* The string after the field write; a byte none of whose bits belongs to the
\* field is kept as it is.
SetUnsigned(b, off, bits, value) ==
    [q \in 1..Len(b) |->
        IF 8 * q - 1 < off \/ 8 * q - 8 > off + bits - 1
        THEN b[q]
        ELSE WrittenBit(b, off, bits, value, 8 * q - 8) * 128
             + WrittenBit(b, off, bits, value, 8 * q - 7) * 64
             + WrittenBit(b, off, bits, value, 8 * q - 6) * 32
             + WrittenBit(b, off, bits, value, 8 * q - 5) * 16
             + WrittenBit(b, off, bits, value, 8 * q - 4) * 8
             + WrittenBit(b, off, bits, value, 8 * q - 3) * 4
             + WrittenBit(b, off, bits, value, 8 * q - 2) * 2
             + WrittenBit(b, off, bits, value, 8 * q - 1)]

\* BITFIELD key GET fmt offset
BitfieldGet(b, fmt, tok) ==
    GetUnsigned(b, TokenIndex(tok) * FormatBits(fmt), FormatBits(fmt))

\* The field write itself: the string grows to hold the field, whose bits are
\* then replaced (overflow WRAP: the high bits of value are dropped).
FieldSet(b, bits, index, value) ==
    SetUnsigned(Grow(b, (index * bits + bits + 7) \div 8), index * bits, bits, value)

\* BITFIELD key SET fmt offset value: the format and the offset are parsed once,
\* then the field is written.
BitfieldSet(b, fmt, tok, value) ==
    CHOOSE r \in { FieldSet(b, bits, index, value) :
                      bits \in {FormatBits(fmt)}, index \in {TokenIndex(tok)} } : TRUE

\* BitFieldOperation.execute(): the list of the replies, one per sub-command.
execute(replies) == PyList(replies)

----------------------------------------------------------------------------
(* canvas.py: class Canvas                                                 *)

NoCall == [op |-> "none", args |-> <<>>, out |-> "ok", val |-> PyNone]
Returned(op, args, val) == [op |-> op, args |-> args, out |-> "ok", val |-> val]
Raised(op, args) == [op |-> op, args |-> args, out |-> "error", val |-> PyNone]

\* The rectangle _fill_with_white_pixels hands to set_pixel_region.
FillRect == <<1, 1, CANVAS_WIDTH, CANVAS_HEIGHT>>

\* Defective variant: only the rows are looked at, a rectangle with x1 > x2 alone
\* is taken for one that has pixels.
RegionEmptyRowsOnly(r) == r[2] > r[4]

\* range(y1, y2 + 1) x range(x1, x2 + 1) has no element.
RegionEmpty(r) == r[2] > r[4] \/ r[1] > r[3]

\* Defective variant: the inner loop of the last row stops one pixel early.
RegionLastEarly(r, x, y) == x >= r[3] - 1 /\ y = r[4]

\* (x, y) is the last pixel the two loops of set_pixel_region visit.
RegionLast(r, x, y) == x = r[3] /\ y = r[4]

\* The store applied a field set sent by client i.
Landed(i, tok, value) ==
    /\ blob' = BitfieldSet(blob, PIXEL_FORMAT, tok, value)
    /\ \E index \in {TokenIndex(tok)}, stored \in {value % Pow2(FormatBits(PIXEL_FORMAT))} :
           applied' = [k \in DOMAIN applied \cup {index} |->
                          IF k = index THEN stored ELSE applied[k]]
    /\ quiet' = [j \in Clients |-> IF j = i THEN quiet[j] ELSE FALSE]
    /\ seen' = [j \in Clients |->
                   IF pc[j] = "scan" /\ blob' # blob THEN Append(seen[j], blob')
                   ELSE seen[j]]

NotLanded == UNCHANGED <<blob, applied, quiet, seen>>

\* Defective variant: a constructor that waits until no other fill is running.
ConstructExclusive(i, w, h) ==
    /\ pc[i] = "new"
    /\ \A j \in Clients \ {i} : pc[j] \notin {"init", "region"}
    /\ width' = [width EXCEPT ![i] = w]
    /\ height' = [height EXCEPT ![i] = h]
    /\ rect' = [rect EXCEPT ![i] = FillRect]
    /\ cx' = [cx EXCEPT ![i] = FillRect[1]]
    /\ cy' = [cy EXCEPT ![i] = FillRect[2]]
    /\ trips' = [trips EXCEPT ![i] = 0]
    /\ quiet' = [quiet EXCEPT ![i] = TRUE]
    /\ pc' = [pc EXCEPT ![i] = "init"]
    /\ sent' = [sent EXCEPT ![i] = <<>>]
    /\ UNCHANGED <<blob, last, before, applied, writes, offs, out, seen>>

\* Canvas(width, height, pixel_format, name, host, port): lines 55-60, up to the
\* first round trip of the fill.
Construct(i, w, h) ==
    /\ pc[i] = "new"
    /\ width' = [width EXCEPT ![i] = w]
    /\ height' = [height EXCEPT ![i] = h]
    /\ rect' = [rect EXCEPT ![i] = FillRect]
    /\ cx' = [cx EXCEPT ![i] = FillRect[1]]
    /\ cy' = [cy EXCEPT ![i] = FillRect[2]]
    /\ trips' = [trips EXCEPT ![i] = 0]
    /\ quiet' = [quiet EXCEPT ![i] = TRUE]
    /\ IF RegionEmpty(FillRect)
       THEN /\ pc' = [pc EXCEPT ![i] = "ready"]
            /\ last' = [last EXCEPT ![i] = Returned("Canvas", <<w, h>>, PyNone)]
       ELSE /\ pc' = [pc EXCEPT ![i] = "init"]
            /\ UNCHANGED last
    /\ sent' = [sent EXCEPT ![i] = <<>>]
    /\ UNCHANGED <<blob, before, applied, writes, offs, out, seen>>

\* set_pixel_region(x1, y1, x2, y2): the call, up to the first round trip.
SetPixelRegion(i, r) ==
    /\ pc[i] = "ready"
    /\ writes[i] < MaxWrites
    /\ writes' = [writes EXCEPT ![i] = @ + 1]
    /\ rect' = [rect EXCEPT ![i] = r]
    /\ cx' = [cx EXCEPT ![i] = r[1]]
    /\ cy' = [cy EXCEPT ![i] = r[2]]
    /\ before' = [before EXCEPT ![i] = blob]
    /\ trips' = [trips EXCEPT ![i] = 0]
    /\ quiet' = [quiet EXCEPT ![i] = TRUE]
    /\ IF RegionEmpty(r)
       THEN /\ last' = [last EXCEPT ![i] = Returned("set_pixel_region", r, PyNone)]
            /\ UNCHANGED pc
       ELSE /\ pc' = [pc EXCEPT ![i] = "region"]
            /\ UNCHANGED last
    /\ sent' = [sent EXCEPT ![i] = <<>>]
    /\ UNCHANGED <<blob, width, height, applied, offs, out, seen>>

\* The call the running fill of client i belongs to.
FillOp(i) == IF pc[i] = "init" THEN "Canvas" ELSE "set_pixel_region"
FillArgs(i) == IF pc[i] = "init" THEN <<width[i], height[i]>> ELSE rect[i]

\* Defective variant: a fill that leaves alone a field to which a color other
\* than WHITE was last written.
RegionStepKeepsWritten(i) ==
    /\ pc[i] \in {"init", "region"}
    /\ \E index \in {TokenIndex(calculate_offset(cx[i], cy[i], width[i]))} :
           IF index \in DOMAIN applied /\ applied[index] # WHITE
           THEN NotLanded
           ELSE Landed(i, calculate_offset(cx[i], cy[i], width[i]), WHITE)
    /\ trips' = [trips EXCEPT ![i] = @ + 1]
    /\ IF RegionLast(rect[i], cx[i], cy[i])
       THEN /\ pc' = [pc EXCEPT ![i] = "ready"]
            /\ last' = [last EXCEPT ![i] = Returned(FillOp(i), FillArgs(i), PyNone)]
            /\ UNCHANGED <<cx, cy>>
       ELSE /\ IF cx[i] < rect[i][3]
               THEN /\ cx' = [cx EXCEPT ![i] = @ + 1]
                    /\ UNCHANGED cy
               ELSE /\ cx' = [cx EXCEPT ![i] = rect[i][1]]
                    /\ cy' = [cy EXCEPT ![i] = @ + 1]
            /\ UNCHANGED <<pc, last>>
    /\ sent' = [sent EXCEPT ![i] = Append(@, <<cx[i], cy[i], WHITE>>)]
    /\ UNCHANGED <<width, height, rect, before, writes, offs, out>>

\* Defective variant: the loops nested the other way round, columns outermost.
RegionStepColumnMajor(i) ==
    /\ pc[i] \in {"init", "region"}
    /\ Landed(i, calculate_offset(cx[i], cy[i], width[i]), WHITE)
    /\ trips' = [trips EXCEPT ![i] = @ + 1]
    /\ IF RegionLast(rect[i], cx[i], cy[i])
       THEN /\ pc' = [pc EXCEPT ![i] = "ready"]
            /\ last' = [last EXCEPT ![i] = Returned(FillOp(i), FillArgs(i), PyNone)]
            /\ UNCHANGED <<cx, cy>>
       ELSE /\ IF cy[i] < rect[i][4]
               THEN /\ cy' = [cy EXCEPT ![i] = @ + 1]
                    /\ UNCHANGED cx
               ELSE /\ cy' = [cy EXCEPT ![i] = rect[i][2]]
                    /\ cx' = [cx EXCEPT ![i] = @ + 1]
            /\ UNCHANGED <<pc, last>>
    /\ sent' = [sent EXCEPT ![i] = Append(@, <<cx[i], cy[i], WHITE>>)]
    /\ UNCHANGED <<width, height, rect, before, writes, offs, out>>

\* One iteration of the inner loop (lines 104-107): one BITFIELD SET round trip
\* writing WHITE at (x_coordinate, y_coordinate), then the loops advance or end.
RegionStep(i) ==
    /\ pc[i] \in {"init", "region"}
    /\ Landed(i, calculate_offset(cx[i], cy[i], width[i]), WHITE)
    /\ trips' = [trips EXCEPT ![i] = @ + 1]
    /\ IF RegionLast(rect[i], cx[i], cy[i])
       THEN /\ pc' = [pc EXCEPT ![i] = "ready"]
            /\ last' = [last EXCEPT ![i] = Returned(FillOp(i), FillArgs(i), PyNone)]
            /\ UNCHANGED <<cx, cy>>
       ELSE /\ IF cx[i] < rect[i][3]
               THEN /\ cx' = [cx EXCEPT ![i] = @ + 1]
                    /\ UNCHANGED cy
               ELSE /\ cx' = [cx EXCEPT ![i] = rect[i][1]]
                    /\ cy' = [cy EXCEPT ![i] = @ + 1]
            /\ UNCHANGED <<pc, last>>
    /\ sent' = [sent EXCEPT ![i] = Append(@, <<cx[i], cy[i], WHITE>>)]
    /\ UNCHANGED <<width, height, rect, before, writes, offs, out>>

\* Defective variant: a fill that undoes its writes when a round trip fails.
RegionFailRollback(i, landed) ==
    /\ pc[i] \in {"init", "region"}
    /\ blob' = before[i]
    /\ UNCHANGED <<applied, quiet, seen>>
    /\ trips' = [trips EXCEPT ![i] = @ + 1]
    /\ pc' = [pc EXCEPT ![i] = IF pc[i] = "init" THEN "new" ELSE "ready"]
    /\ last' = [last EXCEPT ![i] = Raised(FillOp(i), FillArgs(i))]
    /\ sent' = [sent EXCEPT ![i] = Append(@, <<cx[i], cy[i], WHITE>>)]
    /\ UNCHANGED <<width, height, rect, cx, cy, before, writes, offs, out>>

\* The round trip of the inner loop raises (connection lost, store error): the
\* exception leaves both loops and the method; the command may or may not have
\* reached the store before the failure.
RegionFail(i, landed) ==
    /\ pc[i] \in {"init", "region"}
    /\ IF landed
       THEN Landed(i, calculate_offset(cx[i], cy[i], width[i]), WHITE)
       ELSE NotLanded
    /\ trips' = [trips EXCEPT ![i] = @ + 1]
    /\ pc' = [pc EXCEPT ![i] = IF pc[i] = "init" THEN "new" ELSE "ready"]
    /\ last' = [last EXCEPT ![i] = Raised(FillOp(i), FillArgs(i))]
    /\ sent' = [sent EXCEPT ![i] = Append(@, <<cx[i], cy[i], WHITE>>)]
    /\ UNCHANGED <<width, height, rect, cx, cy, before, writes, offs, out>>

\* Defective variant: a write that is refused while another client's fill runs.
SetPixelColorLocked(i, x, y, color) ==
    /\ pc[i] = "ready"
    /\ \A j \in Clients \ {i} : pc[j] \notin {"init", "region"}
    /\ writes[i] < MaxWrites
    /\ writes' = [writes EXCEPT ![i] = @ + 1]
    /\ Landed(i, calculate_offset(x, y, width[i]), color)
    /\ last' = [last EXCEPT ![i] = Returned("set_pixel_color", <<x, y, color>>, PyNone)]
    /\ UNCHANGED <<pc, width, height, rect, cx, cy, before, trips, offs, sent, out>>

\* Defective variant: a write that raises when the field no longer holds WHITE
\* (a compare-and-set that reports the other writer as a conflict).
SetPixelColorCompareAndSet(i, x, y, color) ==
    /\ pc[i] = "ready"
    /\ writes[i] < MaxWrites
    /\ writes' = [writes EXCEPT ![i] = @ + 1]
    /\ IF BitfieldGet(blob, PIXEL_FORMAT, calculate_offset(x, y, width[i])) = WHITE
       THEN /\ Landed(i, calculate_offset(x, y, width[i]), color)
            /\ last' = [last EXCEPT ![i] =
                            Returned("set_pixel_color", <<x, y, color>>, PyNone)]
       ELSE /\ NotLanded
            /\ last' = [last EXCEPT ![i] = Raised("set_pixel_color", <<x, y, color>>)]
    /\ UNCHANGED <<pc, width, height, rect, cx, cy, before, trips, offs, sent, out>>

\* Defective variant: a write that replaces the whole byte the field lies in
\* (a range write of the string, not a field write).
SetPixelColorWholeByte(i, x, y, color) ==
    /\ pc[i] = "ready"
    /\ writes[i] < MaxWrites
    /\ writes' = [writes EXCEPT ![i] = @ + 1]
    /\ \E index \in {TokenIndex(calculate_offset(x, y, width[i]))} :
           /\ blob' = FieldSet(blob, 8, (index * FormatBits(PIXEL_FORMAT)) \div 8, color)
           /\ applied' = [k \in DOMAIN applied \cup {index} |->
                              IF k = index THEN color ELSE applied[k]]
    /\ quiet' = [j \in Clients |-> IF j = i THEN quiet[j] ELSE FALSE]
    /\ seen' = [j \in Clients |->
                   IF pc[j] = "scan" /\ blob' # blob THEN Append(seen[j], blob')
                   ELSE seen[j]]
    /\ last' = [last EXCEPT ![i] = Returned("set_pixel_color", <<x, y, color>>, PyNone)]
    /\ UNCHANGED <<pc, width, height, rect, cx, cy, before, trips, offs, sent, out>>

\* Defective variant: a write that checks its coordinates and raises, without a
\* round trip, when they are not on the canvas.
SetPixelColorChecked(i, x, y, color) ==
    /\ pc[i] = "ready"
    /\ writes[i] < MaxWrites
    /\ writes' = [writes EXCEPT ![i] = @ + 1]
    /\ IF x \in 1..width[i] /\ y \in 1..height[i]
       THEN /\ Landed(i, calculate_offset(x, y, width[i]), color)
            /\ last' = [last EXCEPT ![i] =
                            Returned("set_pixel_color", <<x, y, color>>, PyNone)]
       ELSE /\ NotLanded
            /\ last' = [last EXCEPT ![i] = Raised("set_pixel_color", <<x, y, color>>)]
    /\ UNCHANGED <<pc, width, height, rect, cx, cy, before, trips, offs, sent, out>>

\* set_pixel_color(x, y, color): one BITFIELD SET round trip (lines 83-85).
SetPixelColor(i, x, y, color) ==
    /\ pc[i] = "ready"
    /\ writes[i] < MaxWrites
    /\ writes' = [writes EXCEPT ![i] = @ + 1]
    /\ Landed(i, calculate_offset(x, y, width[i]), color)
    /\ last' = [last EXCEPT ![i] = Returned("set_pixel_color", <<x, y, color>>, PyNone)]
    /\ UNCHANGED <<pc, width, height, rect, cx, cy, before, trips, offs, sent, out>>

\* Defective variant: a read that makes the store pad the string up to the
\* field it reads, as a field set does.
GetPixelColorPadding(i, x, y) ==
    /\ pc[i] = "ready"
    /\ LET offset == calculate_offset(x, y, width[i])
           pixel_value == execute(<<BitfieldGet(blob, PIXEL_FORMAT, offset)>>)
       IN  /\ last' = [last EXCEPT ![i] = Returned("get_pixel_color", <<x, y>>, pixel_value)]
           /\ blob' = Grow(blob, (TokenIndex(offset) * FormatBits(PIXEL_FORMAT)
                                  + FormatBits(PIXEL_FORMAT) + 7) \div 8)
    /\ UNCHANGED <<pc, width, height, rect, cx, cy, before, trips, quiet,
                   applied, writes, offs, sent, out, seen>>

\* get_pixel_color(x, y): one BITFIELD GET round trip; the method returns what
\* execute() returned (lines 70-73).
GetPixelColor(i, x, y) ==
    /\ pc[i] = "ready"
    /\ LET offset == calculate_offset(x, y, width[i])
           pixel_value == execute(<<BitfieldGet(blob, PIXEL_FORMAT, offset)>>)
       IN  last' = [last EXCEPT ![i] = Returned("get_pixel_color", <<x, y>>, pixel_value)]
    /\ UNCHANGED <<blob, pc, width, height, rect, cx, cy, before, trips, quiet,
                   applied, writes, offs,
                   sent, out, seen>>

\* get_canvas(): one GET round trip; None when the key does not exist (lines 115-117).
GetCanvas(i) ==
    /\ pc[i] = "ready"
    /\ LET bitfield == IF blob = <<>> THEN PyNone ELSE PyBytes(blob)
       IN  last' = [last EXCEPT ![i] = Returned("get_canvas", <<>>, bitfield)]
    /\ UNCHANGED <<blob, pc, width, height, rect, cx, cy, before, trips, quiet,
                   applied, writes, offs,
                   sent, out, seen>>

\* to_string(): the call, up to the first round trip (lines 125-127).  With no
\* column the inner loop never runs and every row is its separator alone.
to_string(i) ==
    /\ pc[i] = "ready"
    /\ cx' = [cx EXCEPT ![i] = 0]
    /\ cy' = [cy EXCEPT ![i] = 0]
    /\ trips' = [trips EXCEPT ![i] = 0]
    /\ quiet' = [quiet EXCEPT ![i] = TRUE]
    /\ seen' = [seen EXCEPT ![i] = <<blob>>]
    /\ IF height[i] <= 0 \/ width[i] <= 0
       THEN /\ last' = [last EXCEPT ![i] =
                            Returned("to_string", <<>>,
                                     PyStr([k \in 1..height[i] |-> "\n"]))]
            /\ UNCHANGED <<pc, out>>
       ELSE /\ pc' = [pc EXCEPT ![i] = "scan"]
            /\ out' = [out EXCEPT ![i] = <<>>]
            /\ UNCHANGED last
    /\ UNCHANGED <<blob, width, height, rect, before, applied, writes, offs, sent>>

\* bitfield_string once the value read at column x_coordinate is appended, and
\* the row separator after the last column (lines 132-133).
Appended(i, next_pixel_value) ==
    out[i] \o str_value(next_pixel_value)
           \o (IF cx[i] + 1 = width[i] THEN <<"\n">> ELSE <<>>)

\* Defective variant: a scan that reads every pixel from the string the key
\* held when to_string was called (a snapshot) and not from the key.
ScanStepSnapshot(i) ==
    /\ pc[i] = "scan"
    /\ trips' = [trips EXCEPT ![i] = @ + 1]
    /\ LET offset == calculate_offset(cx[i] + 1, cy[i] + 1, width[i])
           next_pixel_value == execute(<<BitfieldGet(seen[i][1], PIXEL_FORMAT, offset)>>)
       IN  IF cx[i] + 1 = width[i] /\ cy[i] + 1 = height[i]
           THEN /\ pc' = [pc EXCEPT ![i] = "ready"]
                /\ last' = [last EXCEPT ![i] =
                                Returned("to_string", <<>>,
                                         PyStr(Appended(i, next_pixel_value)))]
                /\ out' = [out EXCEPT ![i] = <<>>]
                /\ UNCHANGED <<cx, cy>>
           ELSE /\ out' = [out EXCEPT ![i] = Appended(i, next_pixel_value)]
                /\ IF cx[i] + 1 < width[i]
                   THEN /\ cx' = [cx EXCEPT ![i] = @ + 1]
                        /\ UNCHANGED cy
                   ELSE /\ cx' = [cx EXCEPT ![i] = 0]
                        /\ cy' = [cy EXCEPT ![i] = @ + 1]
                /\ UNCHANGED <<pc, last>>
    /\ UNCHANGED <<blob, width, height, rect, before, quiet, applied, writes, offs,
                   sent, seen>>

\* Defective variant: a scan that starts over at the first pixel when it has
\* read the last one, and so never returns by itself.
ScanStepRewind(i) ==
    /\ pc[i] = "scan"
    /\ LET offset == calculate_offset(cx[i] + 1, cy[i] + 1, width[i])
           next_pixel_value == execute(<<BitfieldGet(blob, PIXEL_FORMAT, offset)>>)
       IN  IF cx[i] + 1 = width[i] /\ cy[i] + 1 = height[i]
           THEN /\ out' = [out EXCEPT ![i] = <<>>]
                /\ cx' = [cx EXCEPT ![i] = 0]
                /\ cy' = [cy EXCEPT ![i] = 0]
                /\ trips' = [trips EXCEPT ![i] = 0]
           ELSE /\ out' = [out EXCEPT ![i] = Appended(i, next_pixel_value)]
                /\ trips' = [trips EXCEPT ![i] = @ + 1]
                /\ IF cx[i] + 1 < width[i]
                   THEN /\ cx' = [cx EXCEPT ![i] = @ + 1]
                        /\ UNCHANGED cy
                   ELSE /\ cx' = [cx EXCEPT ![i] = 0]
                        /\ cy' = [cy EXCEPT ![i] = @ + 1]
    /\ UNCHANGED <<blob, pc, last, width, height, rect, before, quiet, applied,
                   writes, offs, sent, seen>>

\* One iteration of the inner loop of to_string (lines 128-132): one BITFIELD
\* GET round trip for pixel (x_coordinate + 1, y_coordinate + 1), then the loops
\* advance or the method returns the string.
ScanStep(i) ==
    /\ pc[i] = "scan"
    /\ trips' = [trips EXCEPT ![i] = @ + 1]
    /\ LET offset == calculate_offset(cx[i] + 1, cy[i] + 1, width[i])
           next_pixel_value == execute(<<BitfieldGet(blob, PIXEL_FORMAT, offset)>>)
       IN  IF cx[i] + 1 = width[i] /\ cy[i] + 1 = height[i]
           THEN /\ pc' = [pc EXCEPT ![i] = "ready"]
                /\ last' = [last EXCEPT ![i] =
                                Returned("to_string", <<>>,
                                         PyStr(Appended(i, next_pixel_value)))]
                /\ out' = [out EXCEPT ![i] = <<>>]
                /\ UNCHANGED <<cx, cy>>
           ELSE /\ out' = [out EXCEPT ![i] = Appended(i, next_pixel_value)]
                /\ IF cx[i] + 1 < width[i]
                   THEN /\ cx' = [cx EXCEPT ![i] = @ + 1]
                        /\ UNCHANGED cy
                   ELSE /\ cx' = [cx EXCEPT ![i] = 0]
                        /\ cy' = [cy EXCEPT ![i] = @ + 1]
                /\ UNCHANGED <<pc, last>>
    /\ UNCHANGED <<blob, width, height, rect, before, quiet, applied, writes, offs,
                   sent, seen>>

\* The round trip of the inner loop of to_string raises: the exception leaves
\* both loops and the method, the string built so far is dropped.
ScanFail(i) ==
    /\ pc[i] = "scan"
    /\ trips' = [trips EXCEPT ![i] = @ + 1]
    /\ pc' = [pc EXCEPT ![i] = "ready"]
    /\ last' = [last EXCEPT ![i] = Raised("to_string", <<>>)]
    /\ out' = [out EXCEPT ![i] = <<>>]
    /\ UNCHANGED <<blob, width, height, rect, cx, cy, before, quiet, applied, writes,
                   offs, sent, seen>>

----------------------------------------------------------------------------
(* Inputs and specifications                                               *)

\* What the key may hold when a Canvas is constructed: nothing, or what an
\* earlier run on the same key name left there, here a canvas of CANVAS_WIDTH x
\* (CANVAS_HEIGHT + 1) pixels of 4 bits, all of them GREY (two pixels a byte).
GreyBlob == [q \in 1..((CANVAS_WIDTH * (CANVAS_HEIGHT + 1)) \div 2) |-> GREY * 16 + GREY]
PriorBlobs == { <<>>, GreyBlob }

\* (width, height) handed to the constructor.
Dims ==
    { <<CANVAS_WIDTH, CANVAS_HEIGHT>>,
      <<CANVAS_WIDTH, CANVAS_HEIGHT + 1>> }

InRange(i, x, y) == x \in 1..width[i] /\ y \in 1..height[i]
RectInRange(i, r) == InRange(i, r[1], r[2]) /\ InRange(i, r[3], r[4])

\* Rectangles handed to set_pixel_region: the one of __main__, a part of the row
\* below the constant extent, and one whose corners are swapped.
Rects == { <<2, 2, 4, 4>>, <<1, 6, 3, 6>>, <<3, 3, 2, 2>> }

\* Rectangles with x1 > x2 alone and with y1 > y2 alone.
RectsInverted == { <<3, 2, 2, 4>>, <<2, 4, 3, 2>> }

\* Pixels handed to get_pixel_color and set_pixel_color: the corners of the
\* canvas of client i, the start of the second row, and an inner pixel.
Pixels(i) ==
    { <<1, 1>>, <<width[i], 1>>, <<1, 2>>, <<2, 2>>, <<1, height[i]>>,
      <<width[i], height[i]>> }

\* Pixels outside the canvas of client i: one column to the right of the first
\* row, one column to the left of the second row, and one column to the right
\* of the last row (past the last field of the canvas).
PixelsOut(i) == { <<width[i] + 1, 1>>, <<0, 2>>, <<width[i] + 1, height[i]>> }

NoOffs == [done |-> FALSE, w |-> 0, p |-> <<0, 0>>, q |-> <<0, 0>>, tp |-> <<>>, tq |-> <<>>]

InitCanvas ==
    /\ blob \in PriorBlobs
    /\ pc = [i \in Clients |-> "new"]
    /\ width = [i \in Clients |-> 0]
    /\ height = [i \in Clients |-> 0]
    /\ rect = [i \in Clients |-> <<1, 1, 0, 0>>]
    /\ cx = [i \in Clients |-> 1]
    /\ cy = [i \in Clients |-> 1]
    /\ last = [i \in Clients |-> NoCall]
    /\ before = [i \in Clients |-> <<>>]
    /\ trips = [i \in Clients |-> 0]
    /\ quiet = [i \in Clients |-> TRUE]
    /\ applied = [k \in {} |-> 0]
    /\ writes = [i \in Clients |-> 0]
    /\ offs = NoOffs
    /\ sent = [i \in Clients |-> <<>>]
    /\ out = [i \in Clients |-> <<>>]
    /\ seen = [i \in Clients |-> <<>>]

\* One client; a round trip of a fill may fail.
NextSeq ==
    \E i \in {"A"} :
        \/ \E d \in Dims : Construct(i, d[1], d[2])
        \/ \E r \in Rects \cup RectsInverted : RectInRange(i, r) /\ SetPixelRegion(i, r)
        \/ RegionStep(i)
        \/ \E landed \in BOOLEAN : RegionFail(i, landed)
        \/ \E p \in Pixels(i) \cup PixelsOut(i), c \in Color :
               SetPixelColor(i, p[1], p[2], c)
        \/ \E p \in Pixels(i) \cup PixelsOut(i) : GetPixelColor(i, p[1], p[2])
        \/ GetCanvas(i)

SpecSeq == InitCanvas /\ [][NextSeq]_vars

\* Two clients on the same key, both built with the constant extent; every
\* round trip succeeds and is one atomic step of the store.
RectsShared == { <<2, 2, 3, 3>>, <<3, 3, 2, 2>> }
PixelsShared == { <<2, 2>>, <<5, 5>> }

Next ==
    \E i \in Clients :
        \/ Construct(i, CANVAS_WIDTH, CANVAS_HEIGHT)
        \/ \E r \in RectsShared : SetPixelRegion(i, r)
        \/ RegionStep(i)
        \/ \E p \in PixelsShared, c \in Color : SetPixelColor(i, p[1], p[2], c)

Spec == InitCanvas /\ [][Next]_vars

\* A writer and a reader on the same key: client "A" writes, client "B" reads
\* single pixels, the whole string, and scans the canvas; every round trip
\* succeeds and is one atomic step of the store.
Writer == "A"
Reader == "B"
PixelsWritten == { <<2, 2>> }
PixelsRead == { <<2, 2>>, <<6, 1>>, <<1, 8>> }
RectsWritten == { <<1, 6, 3, 6>> }

NextRead ==
    \/ Construct(Writer, CANVAS_WIDTH, CANVAS_HEIGHT)
    \/ \E d \in Dims : Construct(Reader, d[1], d[2])
    \/ \E i \in Clients : RegionStep(i)
    \/ \E r \in RectsWritten : SetPixelRegion(Writer, r)
    \/ \E p \in PixelsWritten, c \in Color : SetPixelColor(Writer, p[1], p[2], c)
    \/ \E p \in PixelsRead : GetPixelColor(Reader, p[1], p[2])
    \/ GetCanvas(Reader)
    \/ to_string(Reader)
    \/ ScanStep(Reader)

SpecRead == InitCanvas /\ [][NextRead]_vars

\* One client whose round trips may fail, under the assumption that the store
\* answers every round trip: the round trip a running fill or scan waits for
\* eventually succeeds or raises.
RectsLive == { <<2, 2, 4, 4>>, <<3, 3, 2, 2>> }

Responds(i) ==
    \/ ScanFail(i)
    \/ \E landed \in BOOLEAN : RegionFail(i, landed)
    \/ ScanStep(i)
    \/ RegionStep(i)

NextLive ==
    \E i \in {"A"} :
        \/ Construct(i, CANVAS_WIDTH, CANVAS_HEIGHT)
        \/ \E r \in RectsLive : SetPixelRegion(i, r)
        \/ RegionStep(i)
        \/ \E landed \in BOOLEAN : RegionFail(i, landed)
        \/ to_string(i)
        \/ ScanStep(i)
        \/ ScanFail(i)

SpecLive == InitCanvas /\ [][NextLive]_vars /\ \A i \in Clients : WF_vars(Responds(i))

\* The addressing function alone: calculate_offset applied to two pixels of a
\* canvas of some width.
InitOffset ==
    /\ blob = <<>>
    /\ pc = [i \in Clients |-> "new"]
    /\ width = [i \in Clients |-> 0]
    /\ height = [i \in Clients |-> 0]
    /\ rect = [i \in Clients |-> <<1, 1, 0, 0>>]
    /\ cx = [i \in Clients |-> 1]
    /\ cy = [i \in Clients |-> 1]
    /\ last = [i \in Clients |-> NoCall]
    /\ before = [i \in Clients |-> <<>>]
    /\ trips = [i \in Clients |-> 0]
    /\ quiet = [i \in Clients |-> TRUE]
    /\ applied = [k \in {} |-> 0]
    /\ writes = [i \in Clients |-> 0]
    /\ sent = [i \in Clients |-> <<>>]
    /\ out = [i \in Clients |-> <<>>]
    /\ seen = [i \in Clients |-> <<>>]
    /\ \E w \in 1..MaxCoord, px, py, qx, qy \in 1..MaxCoord :
           offs = [done |-> FALSE, w |-> w, p |-> <<px, py>>, q |-> <<qx, qy>>,
                   tp |-> <<>>, tq |-> <<>>]

Offsets ==
    /\ ~offs.done
    /\ offs' = [offs EXCEPT !.done = TRUE,
                            !.tp = calculate_offset(offs.p[1], offs.p[2], offs.w),
                            !.tq = calculate_offset(offs.q[1], offs.q[2], offs.w)]
    /\ UNCHANGED <<blob, pc, width, height, rect, cx, cy, last, before, trips,
                   quiet, applied, writes, sent, out, seen>>

SpecOffset == InitOffset /\ [][Offsets]_vars

----------------------------------------------------------------------------
(* Vocabulary of the properties                                            *)

\* The linear index spec.md gives pixel (x, y) on a canvas w pixels wide.
LinearIndex(x, y, w) == (y - 1) * w + (x - 1)

\* The value a field get of client i decodes for pixel (x, y) from string b.
Field(b, i, x, y) == BitfieldGet(b, PIXEL_FORMAT, calculate_offset(x, y, width[i]))

CanvasPixels(i) == (1..width[i]) \X (1..height[i])
InRect(r, x, y) == x \in r[1]..r[3] /\ y \in r[2]..r[4]
RectPixels(r) == (r[1]..r[3]) \X (r[2]..r[4])

\* The pixels the loops of the fill of client i wrote before reaching (cx, cy).
Visited(i) ==
    { p \in RectPixels(rect[i]) : p[2] < cy[i] \/ (p[2] = cy[i] /\ p[1] < cx[i]) }

CeilDiv(a, b) == (a + b - 1) \div b

IsDigit(ch) == \E d \in 1..10 : Digits[d] = ch

----------------------------------------------------------------------------
(* C1 .. C5                                                                *)

\* C1: when client i's set_pixel_color(x, y, c) has returned and its very next
\* call is get_pixel_color(x, y), with no write in between, that call returns
\* c's numeric value.
C1_RoundTrip ==
    [][\A i \in Clients :
          ( /\ last[i].op = "set_pixel_color"
            /\ last[i].out = "ok"
            /\ last'[i].op = "get_pixel_color"
            /\ last'[i].out = "ok"
            /\ last'[i].args = SubSeq(last[i].args, 1, 2)
            /\ blob' = blob )
          => last'[i].val = PyInt(last[i].args[3])]_vars

\* C2: once set_pixel_region(x1, y1, x2, y2) on an in-range rectangle has
\* returned, no other client having written meanwhile, every pixel of the
\* rectangle decodes as WHITE and every other pixel of the canvas decodes as it
\* did when the call was made.
C2_RegionContainment ==
    \A i \in Clients :
        ( /\ pc[i] = "ready"
          /\ last[i].op = "set_pixel_region"
          /\ last[i].out = "ok"
          /\ RectInRange(i, rect[i])
          /\ quiet[i] )
        => \A p \in CanvasPixels(i) :
               IF InRect(rect[i], p[1], p[2])
               THEN Field(blob, i, p[1], p[2]) = WHITE
               ELSE Field(blob, i, p[1], p[2]) = Field(before[i], i, p[1], p[2])

\* A fill has returned that turned a GREY pixel of its rectangle WHITE and left
\* a GREY pixel outside it GREY.
C2_Witness ==
    \E i \in Clients :
        /\ pc[i] = "ready"
        /\ last[i].op = "set_pixel_region"
        /\ last[i].out = "ok"
        /\ RectInRange(i, rect[i])
        /\ quiet[i]
        /\ \E p \in CanvasPixels(i) :
               /\ InRect(rect[i], p[1], p[2])
               /\ Field(before[i], i, p[1], p[2]) = GREY
               /\ Field(blob, i, p[1], p[2]) = WHITE
        /\ \E p \in CanvasPixels(i) :
               /\ ~InRect(rect[i], p[1], p[2])
               /\ Field(blob, i, p[1], p[2]) = GREY

\* C3: when the constructor has returned and the client has made no call yet,
\* every pixel of its width x height canvas decodes as WHITE, whatever the key
\* held before.
C3_PostConstruction ==
    \A i \in Clients :
        (pc[i] = "ready" /\ last[i].op = "Canvas" /\ last[i].out = "ok" /\ quiet[i])
        => \A p \in CanvasPixels(i) : Field(blob, i, p[1], p[2]) = WHITE

\* C4: for two pixels with 1 <= x <= width, calculate_offset gives the same
\* token exactly when the pixels are the same.
C4_Injective ==
    (offs.done /\ offs.p[1] <= offs.w /\ offs.q[1] <= offs.w)
    => ((offs.tp = offs.tq) <=> (offs.p = offs.q))

\* The last pixel of the first row and the first pixel of the second one, which
\* are neighbours in the string, got different tokens.
C4_Witness ==
    /\ offs.done
    /\ offs.w >= 2
    /\ offs.p = <<offs.w, 1>>
    /\ offs.q = <<1, 2>>
    /\ offs.tp # offs.tq

\* C5: the token of (x, y) on a canvas W wide is "#" followed by the decimal
\* digits of (y-1)*W + (x-1); (1,1) gives 0, (W,1) gives W-1 and (1,2) gives W.
C5_OffsetFormula ==
    offs.done =>
        /\ Len(offs.tp) >= 2
        /\ offs.tp[1] = "#"
        /\ \A k \in 2..Len(offs.tp) : IsDigit(offs.tp[k])
        /\ Len(offs.tp) > 2 => offs.tp[2] # "0"
        /\ ParseNat(Tail(offs.tp)) = LinearIndex(offs.p[1], offs.p[2], offs.w)
        /\ offs.p = <<1, 1>> => offs.tp = <<"#", "0">>
        /\ offs.p = <<offs.w, 1>> => ParseNat(Tail(offs.tp)) = offs.w - 1
        /\ offs.p = <<1, 2>> => ParseNat(Tail(offs.tp)) = offs.w

\* The last pixel of a 5 x 5 canvas got the two-digit token "#24".
C5_Witness ==
    /\ offs.done
    /\ offs.w = 5
    /\ offs.p = <<5, 5>>
    /\ offs.tp = <<"#", "2", "4">>

----------------------------------------------------------------------------
(* C6 .. C10                                                               *)

\* C6: whenever get_canvas() returns on a constructed canvas, it returns
\* ceil(width * height * field_width_bits / 8) bytes.
C6_BlobLength ==
    \A i \in Clients :
        (pc[i] = "ready" /\ last[i].op = "get_canvas" /\ last[i].out = "ok")
        => /\ last[i].val.type = "bytes"
           /\ Len(last[i].val.v)
                  = CeilDiv(width[i] * height[i] * FormatBits(PIXEL_FORMAT), 8)

\* C7: when the k-th round trip of set_pixel_region has failed (no other client
\* having written meanwhile), the call has raised, exactly k round trips were
\* issued, the k-1 pixels visited before decode as WHITE, and every pixel but
\* those and the k-th one, inside or outside the rectangle, decodes as it did
\* when the call was made; the k-th one holds WHITE or its old value.
C7_PartialFailure ==
    \A i \in Clients :
        ( /\ pc[i] = "ready"
          /\ last[i].op = "set_pixel_region"
          /\ last[i].out = "error"
          /\ RectInRange(i, rect[i])
          /\ quiet[i] )
        => /\ trips[i] = Cardinality(Visited(i)) + 1
           /\ InRect(rect[i], cx[i], cy[i])
           /\ \A p \in Visited(i) : Field(blob, i, p[1], p[2]) = WHITE
           /\ \A p \in CanvasPixels(i) \ (Visited(i) \cup {<<cx[i], cy[i]>>}) :
                  Field(blob, i, p[1], p[2]) = Field(before[i], i, p[1], p[2])
           /\ Field(blob, i, cx[i], cy[i])
                  \in {WHITE, Field(before[i], i, cx[i], cy[i])}

\* A fill has raised at its second round trip or later: a pixel it visited went
\* from GREY to WHITE and a pixel of the rectangle it did not reach is still GREY.
C7_Witness ==
    \E i \in Clients :
        /\ pc[i] = "ready"
        /\ last[i].op = "set_pixel_region"
        /\ last[i].out = "error"
        /\ quiet[i]
        /\ trips[i] >= 2
        /\ \E p \in Visited(i) :
               /\ Field(before[i], i, p[1], p[2]) = GREY
               /\ Field(blob, i, p[1], p[2]) = WHITE
        /\ \E p \in RectPixels(rect[i]) \ (Visited(i) \cup {<<cx[i], cy[i]>>}) :
               Field(blob, i, p[1], p[2]) = GREY

\* C8: every field a BITFIELD SET was applied to decodes as the value of the
\* set the store applied to it last, whatever the interleaving of the two
\* clients, and no set_pixel_color call raises.
C8_LastWriterWins ==
    /\ \A k \in DOMAIN applied :
           BitfieldGet(blob, PIXEL_FORMAT, <<"#">> \o str(k)) = applied[k]
    /\ \A i \in Clients : last[i].op = "set_pixel_color" => last[i].out = "ok"

\* Both clients have set the same pixel, to different colors, and both calls
\* returned; the field holds one of the two colors.
C8_Witness ==
    /\ \A i \in Clients : last[i].op = "set_pixel_color" /\ last[i].out = "ok"
    /\ SubSeq(last["A"].args, 1, 2) = SubSeq(last["B"].args, 1, 2)
    /\ last["A"].args[3] # last["B"].args[3]
    /\ Field(blob, "A", last["A"].args[1], last["A"].args[2])
           \in {last["A"].args[3], last["B"].args[3]}

\* C9: while a client is between two per-pixel writes of set_pixel_region,
\* every set_pixel_color of another constructed client (that may still write)
\* can take effect at once.
C9_FillNotAtomic ==
    \A i \in Clients, j \in Clients :
        (i # j /\ pc[i] = "region" /\ pc[j] = "ready" /\ writes[j] < MaxWrites)
        => \A p \in PixelsShared, c \in Color : ENABLED SetPixelColor(j, p[1], p[2], c)

\* A torn rectangle: the fill of client i is still running, a pixel it has
\* already visited holds GREY again because another client's write landed
\* after it, and the fill goes on.
C9_Witness ==
    \E i \in Clients :
        /\ pc[i] = "region"
        /\ ~quiet[i]
        /\ \E p \in Visited(i) : Field(blob, i, p[1], p[2]) = GREY
        /\ \E p \in RectPixels(rect[i]) \ Visited(i) : Field(blob, i, p[1], p[2]) = WHITE

\* C10: while the initial fill of one client runs, another client can be
\* constructed on the same key, and while two initial fills run, the next
\* write of either can be the next one the store applies.
C10_InitFillsInterleave ==
    \A i \in Clients, j \in Clients :
        i # j =>
            /\ (pc[i] = "init" /\ pc[j] = "new")
                   => ENABLED Construct(j, CANVAS_WIDTH, CANVAS_HEIGHT)
            /\ (pc[i] = "init" /\ pc[j] = "init")
                   => (ENABLED RegionStep(i) /\ ENABLED RegionStep(j))

\* Two initial fills are under way at once, A after two writes and B after three.
C10_Witness ==
    /\ pc["A"] = "init"
    /\ pc["B"] = "init"
    /\ trips["A"] = 2
    /\ trips["B"] = 3

----------------------------------------------------------------------------
(* C11 .. C20                                                              *)

\* The first n pixels of row y of the canvas of client i, decoded from string b
\* and written as decimal integers one after the other.
RECURSIVE RowText(_, _, _, _)
RowText(b, i, y, n) ==
    IF n = 0 THEN <<>> ELSE RowText(b, i, y, n - 1) \o str(Field(b, i, n, y))

\* The first n rows, each followed by the row separator.
RECURSIVE RowsText(_, _, _)
RowsText(b, i, n) ==
    IF n = 0 THEN <<>>
    ELSE RowsText(b, i, n - 1) \o RowText(b, i, n, width[i]) \o <<"\n">>

\* C11: when to_string() has returned and no other client's write landed since
\* it was called, it returned height rows in increasing y, each the decimal
\* values of the row's width pixels in increasing x followed by one "\n".
C11_Rendering ==
    \A i \in Clients :
        (pc[i] = "ready" /\ last[i].op = "to_string" /\ last[i].out = "ok" /\ quiet[i])
        => last[i].val = PyStr(RowsText(blob, i, height[i]))

\* C12: a set_pixel_color(x, y, c) on a pixel of the canvas leaves every other
\* pixel of the canvas with the value it had before the call.
C12_Frame ==
    [][\A i \in Clients :
          ( /\ last'[i].op = "set_pixel_color"
            /\ writes'[i] = writes[i] + 1
            /\ InRange(i, last'[i].args[1], last'[i].args[2]) )
          => \A p \in CanvasPixels(i) \ {SubSeq(last'[i].args, 1, 2)} :
                 Field(blob', i, p[1], p[2]) = Field(blob, i, p[1], p[2])]_vars

\* set_pixel_color has set a pixel of the canvas to GREY, and the pixel whose
\* field lies in the same byte of the string is still WHITE.
C12_Witness ==
    \E i \in Clients :
        /\ pc[i] = "ready"
        /\ last[i].op = "set_pixel_color"
        /\ last[i].out = "ok"
        /\ InRange(i, last[i].args[1], last[i].args[2])
        /\ last[i].args[3] = GREY
        /\ Field(blob, i, last[i].args[1], last[i].args[2]) = GREY
        /\ \E p \in CanvasPixels(i) :
               /\ p # SubSeq(last[i].args, 1, 2)
               /\ LinearIndex(p[1], p[2], width[i]) \div 2
                      = LinearIndex(last[i].args[1], last[i].args[2], width[i]) \div 2
               /\ Field(blob, i, p[1], p[2]) = WHITE

\* The pixels of rectangle r in row-major order, each with the value WHITE.
RowMajor(r) ==
    [k \in 1..((r[3] - r[1] + 1) * (r[4] - r[2] + 1)) |->
        << r[1] + ((k - 1) % (r[3] - r[1] + 1)),
           r[2] + ((k - 1) \div (r[3] - r[1] + 1)),
           WHITE >>]

\* C13: the field sets a fill (set_pixel_region, or the fill of the constructor)
\* has issued so far are, in this order, the first pixels of its rectangle in
\* row-major order, each with the value WHITE; when the fill of a rectangle
\* with x1 <= x2 and y1 <= y2 has returned they are all of its
\* (x2-x1+1)*(y2-y1+1) pixels, one round trip each.
C13_WriteOrder ==
    \A i \in Clients :
        /\ ( \/ pc[i] \in {"init", "region"}
             \/ (pc[i] = "ready" /\ last[i].op \in {"set_pixel_region", "Canvas"}) )
           => /\ Len(sent[i]) = trips[i]
              /\ RegionEmpty(rect[i]) => sent[i] = <<>>
              /\ ~RegionEmpty(rect[i]) =>
                     /\ Len(sent[i]) <= Len(RowMajor(rect[i]))
                     /\ sent[i] = SubSeq(RowMajor(rect[i]), 1, Len(sent[i]))
        /\ ( /\ pc[i] = "ready"
             /\ last[i].op \in {"set_pixel_region", "Canvas"}
             /\ last[i].out = "ok"
             /\ ~RegionEmpty(rect[i]) )
           => /\ sent[i] = RowMajor(rect[i])
              /\ trips[i] = (rect[i][3] - rect[i][1] + 1) * (rect[i][4] - rect[i][2] + 1)

\* set_pixel_region(2, 2, 4, 4) has returned after nine field sets, the fourth
\* of them on (2, 3), the first pixel of the second row of the rectangle.
C13_Witness ==
    \E i \in Clients :
        /\ pc[i] = "ready"
        /\ last[i] = Returned("set_pixel_region", <<2, 2, 4, 4>>, PyNone)
        /\ Len(sent[i]) = 9
        /\ sent[i][3] = <<4, 2, WHITE>>
        /\ sent[i][4] = <<2, 3, WHITE>>

\* The pixel of a canvas w wide whose field has linear index n.
PixelOfIndex(n, w) == << (n % w) + 1, (n \div w) + 1 >>

\* C14: a set_pixel_color(x, y, c) with x outside 1..width returns without an
\* error; when the index (y-1)*width + (x-1) is that of a pixel of the canvas
\* (for x = width+1 and y < height: pixel (1, y+1)), that pixel holds c
\* afterwards and every other pixel of the canvas is unchanged; when the index
\* lies past the canvas, no pixel of the canvas changes.
C14_Aliasing ==
    [][\A i \in Clients :
          ( /\ last'[i].op = "set_pixel_color"
            /\ writes'[i] = writes[i] + 1
            /\ last'[i].args[1] \notin 1..width[i]
            /\ last'[i].args[2] \in 1..height[i]
            /\ LinearIndex(last'[i].args[1], last'[i].args[2], width[i]) >= 0 )
          => LET n == LinearIndex(last'[i].args[1], last'[i].args[2], width[i])
                 alias == PixelOfIndex(n, width[i])
             IN  /\ last'[i].out = "ok"
                 /\ alias # SubSeq(last'[i].args, 1, 2)
                 /\ \A p \in CanvasPixels(i) :
                        Field(blob', i, p[1], p[2])
                            = IF p = alias THEN last'[i].args[3]
                              ELSE Field(blob, i, p[1], p[2])]_vars

\* set_pixel_color(width + 1, 1, GREY) has returned and pixel (1, 2), the first
\* of the next row, holds GREY, while (2, 2) is WHITE.
C14_Witness ==
    \E i \in Clients :
        /\ pc[i] = "ready"
        /\ last[i] = Returned("set_pixel_color", <<width[i] + 1, 1, GREY>>, PyNone)
        /\ Field(blob, i, 1, 2) = GREY
        /\ Field(blob, i, 2, 2) = WHITE

\* C15: provided the store answers every round trip, a running fill
\* (set_pixel_region or the fill of the constructor) and a running to_string
\* eventually end; one that ended without an error made all its round trips
\* (one per pixel of the rectangle, one per pixel of the canvas), and one that
\* ended with an error made at least one.
C15_Termination ==
    /\ \A i \in Clients :
           (pc[i] \in {"init", "region", "scan"}) ~> (pc[i] \in {"ready", "new"})
    /\ [](\A i \in Clients :
             /\ ( /\ pc[i] = "ready"
                  /\ last[i].op \in {"set_pixel_region", "Canvas"}
                  /\ last[i].out = "ok"
                  /\ ~RegionEmpty(rect[i]) )
                => trips[i] = Cardinality(RectPixels(rect[i]))
             /\ (pc[i] = "ready" /\ last[i].op = "to_string" /\ last[i].out = "ok")
                => trips[i] = width[i] * height[i]
             /\ ( /\ pc[i] \in {"ready", "new"}
                  /\ last[i].op \in {"set_pixel_region", "Canvas", "to_string"}
                  /\ last[i].out = "error" )
                => trips[i] >= 1)

\* A to_string has returned after one round trip per pixel of the canvas, on a
\* canvas whose last fill had raised at its third round trip.
C15_Witness ==
    \E i \in Clients :
        /\ pc[i] = "ready"
        /\ last[i].op = "to_string"
        /\ last[i].out = "ok"
        /\ trips[i] = width[i] * height[i]
        /\ rect[i] = <<2, 2, 4, 4>>
        /\ Len(sent[i]) = 3

\* C16: when set_pixel_color(x, y, c) of client i has returned and is still the
\* last write applied to that field, a get_pixel_color(x, y) another client j of
\* the same width makes then returns c's value.
C16_NoCaching ==
    [][\A i \in Clients, j \in Clients :
          ( /\ i # j
            /\ pc[i] = "ready"
            /\ last[i].op = "set_pixel_color"
            /\ last[i].out = "ok"
            /\ width[i] = width[j]
            /\ applied[LinearIndex(last[i].args[1], last[i].args[2], width[i])]
                   = last[i].args[3]
            /\ last'[j] # last[j]
            /\ last'[j].op = "get_pixel_color"
            /\ last'[j].out = "ok"
            /\ last'[j].args = SubSeq(last[i].args, 1, 2) )
          => last'[j].val = PyInt(last[i].args[3])]_vars

\* What to_string of client i returns when every one of its reads finds the
\* key holding string b: the text of the first n pixels of row y, and of the
\* first n rows.
RECURSIVE SnapshotRow(_, _, _, _)
SnapshotRow(b, i, y, n) ==
    IF n = 0 THEN <<>>
    ELSE SnapshotRow(b, i, y, n - 1) \o str_value(execute(<<Field(b, i, n, y)>>))

RECURSIVE SnapshotText(_, _, _)
SnapshotText(b, i, n) ==
    IF n = 0 THEN <<>>
    ELSE SnapshotText(b, i, n - 1) \o SnapshotRow(b, i, n, width[i]) \o <<"\n">>

\* The string a step of the scan of client i has built.
Scanned(i) == IF pc'[i] = "scan" THEN out'[i] ELSE last'[i].val.v

\* C17: every read of a running to_string is answered from the string the key
\* holds at the moment of that read, whatever was written since to_string was
\* called; only when nothing was written meanwhile is the returned text
\* that of one state of the canvas.
C17_ScanNotSnapshot ==
    /\ [][\A i \in Clients :
             ( /\ pc[i] = "scan"
               /\ trips'[i] = trips[i] + 1
               /\ (pc'[i] = "scan" \/ last'[i].out = "ok") )
             => Scanned(i)
                    = out[i]
                      \o str_value(execute(<<Field(blob, i, cx[i] + 1, cy[i] + 1)>>))
                      \o (IF cx[i] + 1 = width[i] THEN <<"\n">> ELSE <<>>)]_vars
    /\ [](\A i \in Clients :
             ( /\ pc[i] = "ready"
               /\ last[i].op = "to_string"
               /\ last[i].out = "ok"
               /\ Len(seen[i]) = 1 )
             => last[i].val = PyStr(SnapshotText(seen[i][1], i, height[i])))

\* A torn scan: to_string has returned a text that is the text of none of the
\* strings the key held while it ran.
C17_Witness ==
    \E i \in Clients :
        /\ pc[i] = "ready"
        /\ last[i].op = "to_string"
        /\ last[i].out = "ok"
        /\ Len(seen[i]) >= 2
        /\ \A k \in 1..Len(seen[i]) :
               last[i].val # PyStr(SnapshotText(seen[i][k], i, height[i]))

\* Client i takes a step of one of its reads: a get_pixel_color or a get_canvas
\* returns, a to_string is called, or a to_string makes a round trip.
ReadStep(i) ==
    \/ last'[i] # last[i] /\ last'[i].op \in {"get_pixel_color", "get_canvas", "to_string"}
    \/ pc[i] = "ready" /\ pc'[i] = "scan"
    \/ pc[i] = "scan" /\ trips'[i] # trips[i]

\* C18: a step of get_pixel_color, get_canvas or to_string, whatever its
\* arguments, leaves the string under the key as it is and has no field set
\* applied, so every pixel decodes after it as before.
C18_ReadsNoEffect ==
    [][\A i \in Clients :
          ReadStep(i) => /\ blob' = blob
                         /\ applied' = applied
                         /\ sent' = sent]_vars

\* get_pixel_color has returned for a pixel whose field lies past the end of
\* the string, and the string has not grown to hold it.
C18_Witness ==
    \E i \in Clients :
        /\ pc[i] = "ready"
        /\ last[i].op = "get_pixel_color"
        /\ last[i].out = "ok"
        /\ last[i].val = PyList(<<0>>)
        /\ blob # <<>>
        /\ LinearIndex(last[i].args[1], last[i].args[2], width[i]) * FormatBits(PIXEL_FORMAT)
               >= 8 * Len(blob)

\* The corners of rectangle r are not in order.
Inverted(r) == r[1] > r[3] \/ r[2] > r[4]

\* C19: a set_pixel_region(x1, y1, x2, y2) with x1 > x2 or y1 > y2 never enters
\* its loop body: it returns without an error and without a round trip, and,
\* no other client having written meanwhile, the string is the one the key
\* held when it was called.
C19_InvertedNoOp ==
    \A i \in Clients :
        /\ pc[i] = "region" => ~Inverted(rect[i])
        /\ ( /\ pc[i] = "ready"
             /\ last[i].op = "set_pixel_region"
             /\ Inverted(last[i].args) )
           => /\ last[i].out = "ok"
              /\ rect[i] = last[i].args
              /\ trips[i] = 0
              /\ sent[i] = <<>>
              /\ quiet[i] => blob = before[i]

\* set_pixel_region(3, 2, 2, 4), whose rows are in order and whose columns are
\* not, has returned on a canvas that had GREY pixels; they are still GREY.
C19_Witness ==
    \E i \in Clients :
        /\ pc[i] = "ready"
        /\ last[i] = Returned("set_pixel_region", <<3, 2, 2, 4>>, PyNone)
        /\ trips[i] = 0
        /\ blob = before[i]
        /\ \E p \in CanvasPixels(i) : Field(blob, i, p[1], p[2]) = GREY

====
